---- MODULE Spec2Model ----
(***************************************************************************)
(* TagCloud (src/plugins/vis_type_tagcloud/public/components/tag_cloud.tsx) *)
(* as a state machine: the fields of the object, the coroutines of          *)
(* _processPendingJob that are suspended at an await, the timers and the    *)
(* d3 callbacks that resume them, and the host's calls of the public API.   *)
(*                                                                         *)
(* JavaScript is single threaded: an action is one task of the event loop  *)
(* (a host call, a timer callback, a d3 'end' callback) together with the   *)
(* promise continuations it resumes, which run before the next task.        *)
(*                                                                         *)
(* null / undefined is the empty sequence, a defined value v is <<v>>.      *)
(***************************************************************************)
EXTENDS Integers, Sequences, FiniteSets, TLC

Null == <<>>
Some(v) == <<v>>
Val(o) == o[1]

\* Then(e, F) is F(e). TLC evaluates the argument of an operator each time the
\* body uses it; Then evaluates e once and hands F its value.
Then(e, F(_)) == CHOOSE r \in {F(v) : v \in {e}} : TRUE

\* The number of calls the host makes to the public API.
MaxCalls == 3

(***************************************************************************)
(* Inputs of the host.                                                     *)
(***************************************************************************)
\* A tag as the host passes it: no placement yet.
Tag(t, v) ==
  [rawText |-> t, displayText |-> t, value |-> Some(v), text |-> Null,
   x |-> Null, y |-> Null, rotate |-> Null, size |-> Null]

\* The argument of setData: null, an empty list, one tag, two tags.
Data ==
  {Null, Some(<<>>), Some(<<Tag("a", 100)>>), Some(<<Tag("a", 1), Tag("b", 100)>>)}

\* The sizes the container element takes (offsetWidth, offsetHeight).
Sizes == {<<0, 2>>, <<1, 1>>, <<2, 2>>}

\* The payloads of setOptions: objects, with keys the order in which their members
\* were added. The second has minFontSize > maxFontSize; the third has the members
\* of the first, added in another order.
OptionPayloads ==
  {[keys |-> <<"orientation", "minFontSize", "maxFontSize", "scale">>,
    orientation |-> "single", minFontSize |-> 10, maxFontSize |-> 36, scale |-> "linear"],
   [keys |-> <<"orientation", "minFontSize", "maxFontSize", "scale">>,
    orientation |-> "right angled", minFontSize |-> 40, maxFontSize |-> 20, scale |-> "log"],
   [keys |-> <<"scale", "orientation", "minFontSize", "maxFontSize">>,
    orientation |-> "single", minFontSize |-> 10, maxFontSize |-> 36, scale |-> "linear"]}

\* What getBBox() of the <g> can report for a scene that holds text nodes:
\* a small cloud, a large cloud, a small cloud that sticks out to the left.
BBoxes ==
  {[x |-> 0, y |-> 0, width |-> 1, height |-> 1],
   [x |-> 0, y |-> 0, width |-> 2, height |-> 2],
   [x |-> 0 - 1, y |-> 0, width |-> 1, height |-> 1]}

VARIABLES
  _words,            \* this._words
  wordsArr,          \* which array object this._words is (the call that passed it)
  _size,             \* this._size, also the element's offsetWidth / offsetHeight
  svgSize,           \* the width / height attributes of the svg and the g
  _optionsAsString, _orientation, _minFontSize, _maxFontSize, _textScale,
  _setTimeoutId, _pendingJob, _layoutIsUpdating, _allInViewBox, _DOMisUpdating,
  _cloudWidth, _cloudHeight, _completedJob,
  scene,             \* the data bound to the text nodes of this._svgGroup
  innerHTML,         \* "svg" while the svg is the element's child, "" after destroy
  procs,             \* the suspended _processPendingJob coroutines
  timerSeq,          \* the timer ids setTimeout has handed out
  ncalls,            \* the API calls made so far
  lastJob,           \* history: the id of the job submitted last (0: none)
  ev,                \* history: what the last step did
  dRuns, dPlaced, dEmits,  \* history: runs, placements, emits of this drain sequence
  burst, burstOpen,  \* history: setData calls of one tick that began on an idle cloud
  quiet,             \* history: destroy() was called and no API call followed
  arg, out           \* an application of one of the module's pure functions

\* The object, its environment and its history.
object ==
  <<_words, wordsArr, _size, svgSize, _optionsAsString, _orientation, _minFontSize,
    _maxFontSize, _textScale, _setTimeoutId, _pendingJob, _layoutIsUpdating,
    _allInViewBox, _DOMisUpdating, _cloudWidth, _cloudHeight, _completedJob, scene,
    innerHTML, procs, timerSeq, ncalls, lastJob, ev, dRuns, dPlaced, dEmits,
    burst, burstOpen, quiet>>

vars == <<object, arg, out>>

\* What a step did: the call or callback, the job it submitted, whether it started
\* a run, and the jobs whose placement began, whose words were bound to the scene,
\* whose reconciliation was skipped and whose run ended in it.
Ev0(op) ==
  [op |-> op, submitted |-> 0, started |-> FALSE, placed |-> 0, applied |-> 0,
   skipped |-> 0, finished |-> 0, emitted |-> FALSE]

\* The object and its environment as one record: the code below maps records to
\* records, so that one task can run several functions one after the other.
This ==
  [words |-> _words, wordsArr |-> wordsArr, size |-> _size, svgSize |-> svgSize,
   optionsAsString |-> _optionsAsString, orientation |-> _orientation,
   minFontSize |-> _minFontSize, maxFontSize |-> _maxFontSize,
   textScale |-> _textScale, setTimeoutId |-> _setTimeoutId,
   pendingJob |-> _pendingJob, layoutIsUpdating |-> _layoutIsUpdating,
   allInViewBox |-> _allInViewBox, DOMisUpdating |-> _DOMisUpdating,
   cloudWidth |-> _cloudWidth, cloudHeight |-> _cloudHeight,
   completedJob |-> _completedJob, scene |-> scene, innerHTML |-> innerHTML,
   procs |-> procs, timerSeq |-> timerSeq, ncalls |-> ncalls, lastJob |-> lastJob,
   ev |-> ev, dRuns |-> dRuns, dPlaced |-> dPlaced, dEmits |-> dEmits]

Commit(t) ==
  /\ _words' = t.words
  /\ wordsArr' = t.wordsArr
  /\ _size' = t.size
  /\ svgSize' = t.svgSize
  /\ _optionsAsString' = t.optionsAsString
  /\ _orientation' = t.orientation
  /\ _minFontSize' = t.minFontSize
  /\ _maxFontSize' = t.maxFontSize
  /\ _textScale' = t.textScale
  /\ _setTimeoutId' = t.setTimeoutId
  /\ _pendingJob' = t.pendingJob
  /\ _layoutIsUpdating' = t.layoutIsUpdating
  /\ _allInViewBox' = t.allInViewBox
  /\ _DOMisUpdating' = t.DOMisUpdating
  /\ _cloudWidth' = t.cloudWidth
  /\ _cloudHeight' = t.cloudHeight
  /\ _completedJob' = t.completedJob
  /\ scene' = t.scene
  /\ innerHTML' = t.innerHTML
  /\ procs' = t.procs
  /\ timerSeq' = t.timerSeq
  /\ ncalls' = t.ncalls
  /\ lastJob' = t.lastJob
  /\ ev' = t.ev
  /\ dRuns' = t.dRuns
  /\ dPlaced' = t.dPlaced
  /\ dEmits' = t.dEmits

\* The state after the constructor: resize() at line 90 has read the element's
\* size and returned from _invalidate, since _words is not set yet.
constructor ==
  /\ _words = Null
  /\ wordsArr = 0
  /\ _size \in Sizes
  /\ svgSize = Null
  /\ _optionsAsString = Null
  /\ _orientation = "single"
  /\ _minFontSize = 10
  /\ _maxFontSize = 36
  /\ _textScale = "linear"
  /\ _setTimeoutId = Null
  /\ _pendingJob = Null
  /\ _layoutIsUpdating = FALSE
  /\ _allInViewBox = FALSE
  /\ _DOMisUpdating = FALSE
  /\ _cloudWidth = 0
  /\ _cloudHeight = 0
  /\ _completedJob = Null
  /\ scene = <<>>
  /\ innerHTML = "svg"
  /\ procs = <<>>
  /\ timerSeq = 0
  /\ ncalls = 0
  /\ lastJob = 0
  /\ ev = Ev0("constructor")
  /\ dRuns = 0
  /\ dPlaced = <<>>
  /\ dEmits = 0
  /\ burst = 0
  /\ burstOpen = FALSE
  /\ quiet = FALSE

\* No pure function is being applied, and none has a result.
NoArg ==
  [fn |-> "none", text |-> "", mode |-> "single", kind |-> "linear", weights |-> <<>>,
   minFontSize |-> 0, maxFontSize |-> 0]

NoOut == [done |-> FALSE, nan |-> FALSE, n |-> 0]

Init == constructor /\ arg = NoArg /\ out = NoOut

(***************************************************************************)
(* The module's pure functions (lines 31-44, 433-469).                     *)
(***************************************************************************)
\* charCodeAt(0) of the characters of the texts the model uses.
CharCodes ==
  "" :> <<>> @@ "a" :> <<97>> @@ "b" :> <<98>> @@ "ab" :> <<97, 98>>
  @@ "ba" :> <<98, 97>> @@ "\"" :> <<34>> @@ "\\" :> <<92>>
  @@ "tag cloud" :> <<116, 97, 103, 32, 99, 108, 111, 117, 100>>

\* JSON.stringify writes a double quote (code 34) and a backslash (code 92) after
\* a backslash.
RECURSIVE JSON_escape(_)
JSON_escape(codes) ==
  IF codes = <<>> THEN <<>>
  ELSE (IF Head(codes) \in {34, 92} THEN <<92, Head(codes)>> ELSE <<Head(codes)>>)
         \o JSON_escape(Tail(codes))

\* JSON.stringify of a string: the escaped text between two double quotes.
JSON_stringify(str) == <<34>> \o JSON_escape(CharCodes[str]) \o <<34>>

Abs(n) == IF n < 0 THEN 0 - n ELSE n

RECURSIVE hashLoop(_, _, _)
hashLoop(codes, hash, max) ==
  IF codes = <<>> THEN hash
  ELSE hashLoop(Tail(codes), (hash * 31 + Head(codes)) % max, max)

hashWithinRange(str, max) == Abs(hashLoop(JSON_stringify(str), 0, max)) % max

\* Faulty variant: 'right angled' spreads the words over four directions.
ORIENTATIONS_fourWay(mode, tag) ==
  CASE mode = "single" -> 0
    [] mode = "right angled" -> hashWithinRange(Val(tag.text), 4) * 90
    [] mode = "multiple" -> hashWithinRange(Val(tag.text), 12) * 15 - 90

ORIENTATIONS(mode, tag) ==
  CASE mode = "single" -> 0
    [] mode = "right angled" -> hashWithinRange(Val(tag.text), 2) * 90
    [] mode = "multiple" -> hashWithinRange(Val(tag.text), 12) * 15 - 90

\* d3.scale.linear / log / sqrt map v through the identity, log10 and the square
\* root before they interpolate; the model's weights make these integers, but for
\* Math.log(0), which is -Infinity: Null here.
D3_SCALING_FUNCTIONS(kind, v) ==
  CASE kind = "linear" -> Some(v)
    [] kind = "log" ->
         (CASE v = 0 -> Null [] v = 1 -> Some(0) [] v = 10 -> Some(1) [] v = 100 -> Some(2))
    [] kind = "square root" ->
         (CASE v = 0 -> Some(0) [] v = 1 -> Some(1) [] v = 100 -> Some(10))

\* d3.extent of the tags' values.
Extent(tags) ==
  LET vals == {Val(tags[i].value) : i \in 1..Len(tags)}
  IN  <<CHOOSE v \in vals : \A w \in vals : v <= w,
        CHOOSE v \in vals : \A w \in vals : v >= w>>

\* The scale _makeTextSizeMapper builds: its kind, domain and range. A scale that
\* is not configured keeps d3's defaults, domain [0, 1] (log: [1, 10]), range [0, 1].
_makeTextSizeMapper(t) ==
  LET kind == t.textScale
      dflt == IF kind = "log" THEN <<1, 10>> ELSE <<0, 1>>
  IN  IF t.words /= Null
      THEN [kind |-> kind,
            range |-> IF Len(Val(t.words)) = 1
                      THEN <<t.maxFontSize, t.maxFontSize>>
                      ELSE <<t.minFontSize, t.maxFontSize>>,
            domain |-> IF Len(Val(t.words)) > 0 THEN Extent(Val(t.words)) ELSE dflt]
      ELSE [kind |-> kind, range |-> <<0, 1>>, domain |-> dflt]

\* mapSizeToFontSize(value): d3 interpolates the range over the mapped domain,
\* r0 * (1 - u) + r1 * u with u = (f(value) - f(d0)) / ((f(d1) - f(d0)) || 1 / 0).
\* A degenerate domain maps every value to the start of the range. With -Infinity
\* among f(value), f(d0), f(d1), u and the result are NaN: Null here.
mapSizeToFontSize(m, v) ==
  LET a == D3_SCALING_FUNCTIONS(m.kind, m.domain[1])
      b == D3_SCALING_FUNCTIONS(m.kind, m.domain[2])
      fv == D3_SCALING_FUNCTIONS(m.kind, v)
  IN  IF a = Null \/ b = Null \/ fv = Null THEN Null
      ELSE IF a = b THEN Some(m.range[1])
      ELSE Some(m.range[1]
                  + ((m.range[2] - m.range[1]) * (Val(fv) - Val(a))) \div (Val(b) - Val(a)))

\* ~~x, as d3-cloud applies it to the font size: NaN becomes 0.
ToInt32(x) == IF x = Null THEN 0 ELSE Val(x)

\* What d3-cloud writes into the tags of a job (it mutates them in place): text
\* from getDisplayText, rotate from ORIENTATIONS, size from the size mapper, and
\* a position, which for a fixed seed is a function of the viewport.
d3TagCloud(t, job) ==
  LET m == _makeTextSizeMapper(t)
  IN  [i \in 1..Len(job.words) |->
        LET tag == [job.words[i] EXCEPT !.text = Some(job.words[i].displayText)]
        IN  [tag EXCEPT !.rotate = Some(ORIENTATIONS(t.orientation, tag)),
                        !.size = Some(ToInt32(mapSizeToFontSize(m, Val(tag.value)))),
                        !.x = Some(job.size[1]),
                        !.y = Some(job.size[2])]]

(***************************************************************************)
(* The coroutines of _processPendingJob. A coroutine is suspended at        *)
(*   "pick"    the timer of _pickPendingJob (tid; live until cleared),      *)
(*   "layout"  the 'end' event of d3-cloud (placing: what it will write),   *)
(*   "dom"     the 'end' events of the transitions (exits, moves),          *)
(* and "resolved" marks a promise of _updateDOM that has resolved.          *)
(***************************************************************************)
Proc(tid) ==
  [pc |-> "pick", tid |-> tid, live |-> TRUE, job |-> Null, placing |-> <<>>,
   exits |-> 0, moves |-> 0]

RemoveAt(s, i) == [k \in 1..(Len(s) - 1) |-> IF k < i THEN s[k] ELSE s[k + 1]]

Keys(tags) == {tags[i].rawText : i \in 1..Len(tags)}

\* Faulty variant: the busy test forgets the reconciler.
_isJobRunning_noDOM(t) == t.setTimeoutId /= Null \/ t.layoutIsUpdating

\* lines 179-181
_isJobRunning(t) == t.setTimeoutId /= Null \/ t.layoutIsUpdating \/ t.DOMisUpdating

\* lines 219-228, to the await: the executor arms the timer.
_pickPendingJob(t) ==
  LET id == t.timerSeq + 1
      \* history: a run that starts on an idle cloud begins a drain sequence
      fresh == t.procs = <<>> /\ t.ev.finished = 0
  IN  [t EXCEPT !.timerSeq = id,
                !.setTimeoutId = Some(id),
                !.procs = Append(@, Proc(id)),
                !.ev.started = TRUE,
                !.dRuns = IF fresh THEN 1 ELSE @ + 1,
                !.dPlaced = IF fresh THEN <<>> ELSE @,
                !.dEmits = IF fresh THEN 0 ELSE @]

\* Faulty variant: a run that starts leaves the completed job in place.
_processPendingJob_keepsCompleted(t) ==
  IF t.pendingJob = Null THEN t
  ELSE IF _isJobRunning(t) THEN t
  ELSE _pickPendingJob(t)

\* lines 183-193, to the await of _pickPendingJob.
_processPendingJob(t) ==
  IF t.pendingJob = Null THEN t
  ELSE IF _isJobRunning(t) THEN t
  ELSE Then([t EXCEPT !.completedJob = Null], _pickPendingJob)

\* Faulty variant: a run that ends does not look at the pending slot again.
_processPendingJob_end_noDrain(t, i) ==
  LET job == Val(t.procs[i].job)
      t1 == [t EXCEPT !.procs = RemoveAt(@, i), !.ev.finished = job.id]
  IN  IF t1.pendingJob /= Null
      THEN t1
      ELSE [t1 EXCEPT !.completedJob = Some(job),
                      !.ev.emitted = TRUE,
                      !.dEmits = @ + 1]

\* lines 211-216: the run of coroutine i ends.
_processPendingJob_end(t, i) ==
  LET job == Val(t.procs[i].job)
  IN  Then([t EXCEPT !.procs = RemoveAt(@, i), !.ev.finished = job.id],
           LAMBDA t1 :
             IF t1.pendingJob /= Null
             THEN _processPendingJob(t1)
             ELSE [t1 EXCEPT !.completedJob = Some(job),
                             !.ev.emitted = TRUE,
                             !.dEmits = @ + 1])

\* Faulty variant: every run that ends emits renderComplete, also when a job is pending.
_processPendingJob_measure_emits(t, cloudBBox) ==
  [t EXCEPT !.cloudWidth = cloudBBox.width,
            !.cloudHeight = cloudBBox.height,
            !.allInViewBox = /\ cloudBBox.x >= 0
                             /\ cloudBBox.y >= 0
                             /\ cloudBBox.x + cloudBBox.width <= t.size[1]
                             /\ cloudBBox.y + cloudBBox.height <= t.size[2],
            !.ev.emitted = TRUE,
            !.dEmits = @ + 1]

\* lines 199-206: the containment monitor.
_processPendingJob_measure(t, cloudBBox) ==
  [t EXCEPT !.cloudWidth = cloudBBox.width,
            !.cloudHeight = cloudBBox.height,
            !.allInViewBox = /\ cloudBBox.x >= 0
                             /\ cloudBBox.y >= 0
                             /\ cloudBBox.x + cloudBBox.width <= t.size[1]
                             /\ cloudBBox.y + cloudBBox.height <= t.size[2]]

\* Faulty variant: the text nodes stay in the scene.
_emptyDOM_keepsNodes(t, i) ==
  [t EXCEPT !.cloudWidth = 0,
            !.cloudHeight = 0,
            !.allInViewBox = TRUE,
            !.DOMisUpdating = FALSE,
            !.ev.applied = Val(t.procs[i].job).id]

\* lines 230-236
_emptyDOM(t, i) ==
  [t EXCEPT !.scene = <<>>,
            !.cloudWidth = 0,
            !.cloudHeight = 0,
            !.allInViewBox = TRUE,
            !.DOMisUpdating = FALSE,
            !.ev.applied = Val(t.procs[i].job).id]

\* Faulty variant: the reconciler has no short cut.
_updateDOM_noSkip(t, i) ==
  LET job == Val(t.procs[i].job)
  IN  [t EXCEPT !.DOMisUpdating = TRUE,
                !.scene = job.words,
                !.procs[i].pc = "dom",
                !.procs[i].exits = Cardinality(Keys(t.scene) \ Keys(job.words)),
                !.procs[i].moves = Cardinality(Keys(job.words)),
                !.ev.applied = job.id]

\* lines 238-313, to the await: either the short cut, or the data join (enter,
\* update, exit; the exiting nodes are removed at once) and the transitions.
_updateDOM(t, i) ==
  LET job == Val(t.procs[i].job)
      canSkipDomUpdate == t.pendingJob /= Null \/ t.setTimeoutId /= Null
  IN  IF canSkipDomUpdate
      THEN [t EXCEPT !.DOMisUpdating = FALSE,
                     !.procs[i].pc = "resolved",
                     !.ev.skipped = job.id]
      ELSE [t EXCEPT !.DOMisUpdating = TRUE,
                     !.scene = job.words,
                     !.procs[i].pc = "dom",
                     !.procs[i].exits = Cardinality(Keys(t.scene) \ Keys(job.words)),
                     !.procs[i].moves = Cardinality(Keys(job.words)),
                     !.ev.applied = job.id]

\* Faulty variant: the promise resolves as soon as no exit transition is in flight.
resolveWhenDone_exitsOnly(t, i) ==
  IF t.procs[i].exits = 0
  THEN [t EXCEPT !.DOMisUpdating = FALSE, !.procs[i].pc = "resolved"]
  ELSE t

\* lines 297-302
resolveWhenDone(t, i) ==
  IF t.procs[i].exits = 0 /\ t.procs[i].moves = 0
  THEN [t EXCEPT !.DOMisUpdating = FALSE, !.procs[i].pc = "resolved"]
  ELSE t

\* Faulty variant: the layout starts whatever the size of the viewport.
_updateLayout_noGuard(t, i) ==
  LET job == Val(t.procs[i].job)
  IN  [t EXCEPT !.layoutIsUpdating = TRUE,
                !.procs[i].pc = "layout",
                !.procs[i].placing = d3TagCloud(t, job),
                !.ev.placed = job.id,
                !.dPlaced = Append(@, job.id)]

\* lines 372-401, to the await: nothing for an empty viewport, else start d3-cloud.
_updateLayout(t, i) ==
  LET job == Val(t.procs[i].job)
  IN  IF job.size[1] <= 0 \/ job.size[2] <= 0 THEN t
      ELSE [t EXCEPT !.layoutIsUpdating = TRUE,
                     !.procs[i].pc = "layout",
                     !.procs[i].placing = d3TagCloud(t, job),
                     !.ev.placed = job.id,
                     !.dPlaced = Append(@, job.id)]

\* Faulty variant: a reconciliation that was skipped is not followed by a measure.
_processPendingJob_dom_noMeasure(t, i, cloudBBox) ==
  Then(_updateDOM(t, i),
       LAMBDA t1 :
         IF t1.procs[i].pc = "dom" THEN t1
         ELSE IF t1.ev.skipped /= 0 THEN _processPendingJob_end(t1, i)
         ELSE Then(_processPendingJob_measure(t1, cloudBBox),
                   LAMBDA t2 : _processPendingJob_end(t2, i)))

\* line 198 and on: reconcile, and go on when the promise has resolved.
_processPendingJob_dom(t, i, cloudBBox) ==
  Then(_updateDOM(t, i),
       LAMBDA t1 :
         IF t1.procs[i].pc = "dom" THEN t1
         ELSE Then(_processPendingJob_measure(t1, cloudBBox),
                   LAMBDA t2 : _processPendingJob_end(t2, i)))

\* lines 194-209: the coroutine has its job. A null job throws at job.words and
\* the coroutine ends there.
_processPendingJob_job(t, i, cloudBBox) ==
  IF t.procs[i].job = Null THEN [t EXCEPT !.procs = RemoveAt(@, i)]
  ELSE LET job == Val(t.procs[i].job)
       IN  IF Len(job.words) > 0
           THEN Then(IF job.refreshLayout THEN _updateLayout(t, i) ELSE t,
                     LAMBDA t1 :
                       IF t1.procs[i].pc = "layout" THEN t1
                       ELSE _processPendingJob_dom(t1, i, cloudBBox))
           ELSE Then(_emptyDOM(t, i), LAMBDA t1 : _processPendingJob_end(t1, i))

\* Faulty variant: the timer's callback leaves the job in the pending slot.
timerCallback_keepsPending(t, i) ==
  [t EXCEPT !.procs[i].job = t.pendingJob,
            !.setTimeoutId = Null]

\* Faulty variant: the timer's callback does not reset the timer id.
timerCallback_keepsId(t, i) ==
  [t EXCEPT !.procs[i].job = t.pendingJob,
            !.pendingJob = Null]

\* lines 221-226: the timer's callback.
timerCallback(t, i) ==
  [t EXCEPT !.procs[i].job = t.pendingJob,
            !.pendingJob = Null,
            !.setTimeoutId = Null]

\* Faulty variant: the job is stored as completed as soon as it is laid out.
layoutEnd_storesJob(t, i) ==
  LET job == Val(t.procs[i].job)
      placed == t.procs[i].placing
  IN  [t EXCEPT !.layoutIsUpdating = FALSE,
                !.procs[i].job = Some([job EXCEPT !.words = placed]),
                !.procs[i].placing = <<>>,
                !.completedJob = Some([job EXCEPT !.words = placed]),
                !.words = IF @ /= Null /\ t.wordsArr = job.arr THEN Some(placed) ELSE @,
                !.pendingJob = IF @ /= Null /\ Val(@).arr = job.arr
                               THEN Some([Val(@) EXCEPT !.words = placed]) ELSE @]

\* lines 396-399: d3-cloud's 'end'. The tags it wrote are those of the job and of
\* whoever holds the same array: this._words, the pending job.
layoutEnd(t, i) ==
  LET job == Val(t.procs[i].job)
      placed == t.procs[i].placing
  IN  [t EXCEPT !.layoutIsUpdating = FALSE,
                !.procs[i].job = Some([job EXCEPT !.words = placed]),
                !.procs[i].placing = <<>>,
                !.words = IF @ /= Null /\ t.wordsArr = job.arr THEN Some(placed) ELSE @,
                !.pendingJob = IF @ /= Null /\ Val(@).arr = job.arr
                               THEN Some([Val(@) EXCEPT !.words = placed]) ELSE @]

(***************************************************************************)
(* The public API (lines 127-170, 332-370).                                *)
(***************************************************************************)
\* lines 172-177
_updateContainerSize(t) == [t EXCEPT !.svgSize = Some(t.size)]

\* lines 332-338: the job shares the array of this._words.
_makeNewJob(t) ==
  [refreshLayout |-> TRUE, size |-> t.size, words |-> Val(t.words), arr |-> t.wordsArr]

\* Faulty variant: the copies lose their rotation.
_makeJobPreservingLayout_noRotate(t) ==
  LET done == Val(t.completedJob).words
  IN  [refreshLayout |-> FALSE,
       size |-> t.size,
       words |-> [i \in 1..Len(done) |->
                   [x |-> done[i].x, y |-> done[i].y, rotate |-> Null,
                    size |-> done[i].size, rawText |-> done[i].rawText,
                    displayText |-> done[i].displayText, value |-> Null,
                    text |-> Null]],
       arr |-> t.ncalls]

\* lines 340-358: a new array of copies of the completed job's tags.
_makeJobPreservingLayout(t) ==
  LET done == Val(t.completedJob).words
  IN  [refreshLayout |-> FALSE,
       size |-> t.size,
       words |-> [i \in 1..Len(done) |->
                   [x |-> done[i].x, y |-> done[i].y, rotate |-> done[i].rotate,
                    size |-> done[i].size, rawText |-> done[i].rawText,
                    displayText |-> done[i].displayText, value |-> Null,
                    text |-> Null]],
       arr |-> t.ncalls]

\* lines 360-370. The job's id is the number of the call that submits it.
_invalidate(t, keepLayout) ==
  IF t.words = Null THEN t
  ELSE Then(_updateContainerSize(t),
            LAMBDA t1 :
              LET canReuseLayout ==
                    keepLayout /\ ~_isJobRunning(t1) /\ t1.completedJob /= Null
                  job == IF canReuseLayout THEN _makeJobPreservingLayout(t1)
                         ELSE _makeNewJob(t1)
              IN  Then([t1 EXCEPT !.pendingJob = Some([id |-> t.ncalls] @@ job),
                                  !.lastJob = t.ncalls,
                                  !.ev.submitted = t.ncalls],
                       _processPendingJob))

\* JSON.stringify(options): the members as "key":value in the order in which they
\* were added, a number as its digits and a string between double quotes.
JSON_stringify_options(options) ==
  [i \in 1..Len(options.keys) |->
    LET key == options.keys[i]
    IN  <<"\"" \o key \o "\"", ":",
          IF key \in {"minFontSize", "maxFontSize"} THEN ToString(options[key])
          ELSE "\"" \o options[key] \o "\"">>]

Min(a, b) == IF a <= b THEN a ELSE b
Max(a, b) == IF a >= b THEN a ELSE b

\* Faulty variant: the font sizes are stored as given.
setOptions_asGiven(t, options) ==
  IF Some(JSON_stringify_options(options)) = t.optionsAsString THEN t
  ELSE Then([t EXCEPT !.optionsAsString = Some(JSON_stringify_options(options)),
                      !.orientation = options.orientation,
                      !.minFontSize = options.minFontSize,
                      !.maxFontSize = options.maxFontSize,
                      !.textScale = options.scale],
            LAMBDA t1 : _invalidate(t1, FALSE))

\* lines 127-137
setOptions(t, options) ==
  IF Some(JSON_stringify_options(options)) = t.optionsAsString THEN t
  ELSE Then([t EXCEPT !.optionsAsString = Some(JSON_stringify_options(options)),
                      !.orientation = options.orientation,
                      !.minFontSize = Min(options.minFontSize, options.maxFontSize),
                      !.maxFontSize = Max(options.minFontSize, options.maxFontSize),
                      !.textScale = options.scale],
            LAMBDA t1 : _invalidate(t1, FALSE))

\* Faulty variant: resize() does not test whether the cloud fits the new size.
resize_ignoresNewSize(t, new) ==
  IF new[1] = t.size[1] /\ new[2] = t.size[2] THEN t
  ELSE LET wasInside == t.size[1] >= t.cloudWidth /\ t.size[2] >= t.cloudHeight
       IN  Then([t EXCEPT !.size = new],
                LAMBDA t1 :
                  IF wasInside /\ t.allInViewBox
                  THEN _invalidate(t1, TRUE)
                  ELSE _invalidate(t1, FALSE))

\* lines 139-156; new is the element's offsetWidth and offsetHeight.
resize(t, new) ==
  IF new[1] = t.size[1] /\ new[2] = t.size[2] THEN t
  ELSE LET wasInside == t.size[1] >= t.cloudWidth /\ t.size[2] >= t.cloudHeight
           willBeInside == t.cloudWidth <= new[1] /\ t.cloudHeight <= new[2]
       IN  Then([t EXCEPT !.size = new],
                LAMBDA t1 :
                  IF wasInside /\ willBeInside /\ t.allInViewBox
                  THEN _invalidate(t1, TRUE)
                  ELSE _invalidate(t1, FALSE))

\* lines 158-161; the host passes a new array with each call.
setData(t, data) ==
  Then([t EXCEPT !.words = data, !.wordsArr = t.ncalls],
       LAMBDA t1 : _invalidate(t1, FALSE))

\* Faulty variant: destroy() also forgets the id of the timer it clears.
destroy_resetsId(t) ==
  [t EXCEPT !.procs = [k \in 1..Len(@) |->
                        IF t.setTimeoutId /= Null /\ @[k].pc = "pick"
                           /\ @[k].tid = Val(t.setTimeoutId)
                        THEN [@[k] EXCEPT !.live = FALSE] ELSE @[k]],
            !.setTimeoutId = Null,
            !.innerHTML = ""]

\* lines 163-166: clearTimeout stops the timer with that id; the field keeps it.
destroy(t) ==
  [t EXCEPT !.procs = [k \in 1..Len(@) |->
                        IF t.setTimeoutId /= Null /\ @[k].pc = "pick"
                           /\ @[k].tid = Val(t.setTimeoutId)
                        THEN [@[k] EXCEPT !.live = FALSE] ELSE @[k]],
            !.innerHTML = ""]

\* this.STATUS once the constructor has run: the field initializer of line 80
\* gives { COMPLETE: 0, INCOMPLETE: 1 }, lines 123-124 then assign 0 to both.
\* Nothing assigns it afterwards.
STATUS == [COMPLETE |-> 0, INCOMPLETE |-> 0]

\* lines 168-170
getStatus(t) == IF t.allInViewBox THEN STATUS.COMPLETE ELSE STATUS.INCOMPLETE

\* a || b for a string a: the empty string is falsy.
OrElse(a, b) == IF a /= "" THEN Some(a) ELSE b

\* lines 408-426
getDebugInfo(t) ==
  [positions |->
     IF t.completedJob /= Null
     THEN LET done == Val(t.completedJob).words
          IN  [i \in 1..Len(done) |->
                [displayText |-> done[i].displayText,
                 rawText |-> OrElse(done[i].rawText, done[i].text),
                 x |-> done[i].x,
                 y |-> done[i].y,
                 rotate |-> done[i].rotate]]
     ELSE <<>>,
   size |-> [width |-> t.size[1], height |-> t.size[2]]]

(***************************************************************************)
(* The steps: the host's calls, and the callbacks of the event loop.       *)
(***************************************************************************)
Idle == procs = <<>> /\ _pendingJob = Null

\* getBBox() of the group: empty for an empty scene.
GetBBox == IF scene = <<>> THEN {[x |-> 0, y |-> 0, width |-> 0, height |-> 0]} ELSE BBoxes

Call(op) == [This EXCEPT !.ev = Ev0(op), !.ncalls = @ + 1]
Callback(op) == [This EXCEPT !.ev = Ev0(op)]

\* The step that takes the object from This to the record a task computes.
Do(task) == \E t \in {task} : Commit(t) /\ UNCHANGED <<arg, out>>

SetData(data) ==
  /\ ncalls < MaxCalls
  /\ \E t \in {Call("setData")} : Do(setData(t, data))
  /\ burst' = IF data = Null THEN 0
              ELSE IF Idle THEN 1
              ELSE IF burst >= 1 /\ burstOpen THEN burst + 1 ELSE 0
  /\ burstOpen' = (burst' >= 1)
  /\ quiet' = FALSE

SetOptions(options) ==
  /\ ncalls < MaxCalls
  /\ \E t \in {Call("setOptions")} : Do(setOptions(t, options))
  /\ burst' = 0
  /\ burstOpen' = FALSE
  /\ quiet' = FALSE

\* The element takes a new size and the host calls resize().
Resize(new) ==
  /\ ncalls < MaxCalls
  /\ \E t \in {Call("resize")} : Do(resize(t, new))
  /\ burst' = 0
  /\ burstOpen' = FALSE
  /\ quiet' = FALSE

Destroy ==
  /\ ncalls < MaxCalls
  /\ \E t \in {Call("destroy")} : Do(destroy(t))
  /\ burst' = 0
  /\ burstOpen' = FALSE
  /\ quiet' = TRUE

\* The timer of coroutine i fires.
TimerFire(i, cloudBBox) ==
  /\ procs[i].pc = "pick"
  /\ procs[i].live
  /\ \E t \in {Callback("timer")} : \E t1 \in {timerCallback(t, i)} :
       Do(_processPendingJob_job(t1, i, cloudBBox))
  /\ burstOpen' = FALSE
  /\ UNCHANGED <<burst, quiet>>

\* d3-cloud ends the layout of coroutine i.
LayoutEnd(i, cloudBBox) ==
  /\ procs[i].pc = "layout"
  /\ \E t \in {Callback("layoutEnd")} : \E t1 \in {layoutEnd(t, i)} :
       Do(_processPendingJob_dom(t1, i, cloudBBox))
  /\ burstOpen' = FALSE
  /\ UNCHANGED <<burst, quiet>>

\* One transition of coroutine i ends (lines 304-312).
TransitionEnd(i, kind, cloudBBox) ==
  /\ procs[i].pc = "dom"
  /\ procs[i][kind] > 0
  /\ \E t \in {Callback(kind)} : \E t1 \in {[t EXCEPT !.procs[i][kind] = @ - 1]} :
       \E t2 \in {resolveWhenDone(t1, i)} :
         Do(IF t2.procs[i].pc = "dom" THEN t2
            ELSE Then(_processPendingJob_measure(t2, cloudBBox),
                      LAMBDA t3 : _processPendingJob_end(t3, i)))
  /\ burstOpen' = FALSE
  /\ UNCHANGED <<burst, quiet>>

ExitEnd(i, cloudBBox) == TransitionEnd(i, "exits", cloudBBox)
MoveEnd(i, cloudBBox) == TransitionEnd(i, "moves", cloudBBox)

Next ==
  \/ \E data \in Data : SetData(data)
  \/ \E options \in OptionPayloads : SetOptions(options)
  \/ \E new \in Sizes : Resize(new)
  \/ Destroy
  \/ \E i \in 1..Len(procs) : \E cloudBBox \in GetBBox : TimerFire(i, cloudBBox)
  \/ \E i \in 1..Len(procs) : \E cloudBBox \in GetBBox : LayoutEnd(i, cloudBBox)
  \/ \E i \in 1..Len(procs) : \E cloudBBox \in GetBBox : ExitEnd(i, cloudBBox)
  \/ \E i \in 1..Len(procs) : \E cloudBBox \in GetBBox : MoveEnd(i, cloudBBox)

Spec == Init /\ [][Next]_vars

\* The event loop runs every callback that is due: timers fire, d3-cloud ends
\* within its time budget, transitions end.
TimerStep == \E i \in 1..Len(procs) : \E cloudBBox \in GetBBox : TimerFire(i, cloudBBox)
LayoutStep == \E i \in 1..Len(procs) : \E cloudBBox \in GetBBox : LayoutEnd(i, cloudBBox)
TransitionStep ==
  \E i \in 1..Len(procs) : \E cloudBBox \in GetBBox :
    ExitEnd(i, cloudBBox) \/ MoveEnd(i, cloudBBox)

FairSpec == Spec /\ WF_vars(TimerStep) /\ WF_vars(LayoutStep) /\ WF_vars(TransitionStep)

(***************************************************************************)
(* The pure functions on their own: an input is drawn, the function is     *)
(* applied to it, another input is drawn. The object stays as constructed. *)
(***************************************************************************)
\* Texts and orientation modes for ORIENTATIONS, texts and the two moduli the
\* module uses for hashWithinRange.
RotateInputs ==
  {[fn |-> f, text |-> tx, mode |-> md, kind |-> "linear", weights |-> <<>>,
    minFontSize |-> 0, maxFontSize |-> 0] :
     f \in {"ORIENTATIONS", "hashWithinRange"}, tx \in DOMAIN CharCodes,
     md \in {"single", "right angled", "multiple"}}

\* Word sets of one and two tags by their weights, the three scales, and two
\* pairs of font sizes as setOptions stores them.
SizeInputs ==
  {[fn |-> "mapSizeToFontSize", text |-> "", mode |-> "single", kind |-> k, weights |-> w,
    minFontSize |-> fs[1], maxFontSize |-> fs[2]] :
     k \in {"linear", "log", "square root"},
     w \in {<<0>>, <<1>>, <<100>>, <<1, 100>>, <<100, 1>>, <<1, 1>>},
     fs \in {<<10, 36>>, <<20, 40>>}}

\* The modulus ORIENTATIONS passes to hashWithinRange in a mode (lines 34, 37).
Modulus(mode) == IF mode = "right angled" THEN 2 ELSE 12

\* ORIENTATIONS[mode](tag) for a tag with that text.
Rotate ==
  /\ arg.fn = "ORIENTATIONS"
  /\ ~out.done
  /\ out' = [done |-> TRUE, nan |-> FALSE,
             n |-> ORIENTATIONS(arg.mode, [text |-> Some(arg.text)])]
  /\ UNCHANGED <<object, arg>>

\* hashWithinRange(text, max)
Hash ==
  /\ arg.fn = "hashWithinRange"
  /\ ~out.done
  /\ out' = [done |-> TRUE, nan |-> FALSE,
             n |-> hashWithinRange(arg.text, Modulus(arg.mode))]
  /\ UNCHANGED <<object, arg>>

\* The object with the word set and the options of an input.
WithInput(a) ==
  [This EXCEPT !.words = Some([i \in 1..Len(a.weights) |->
                                Tag(IF i = 1 THEN "a" ELSE "b", a.weights[i])]),
               !.textScale = a.kind,
               !.minFontSize = a.minFontSize,
               !.maxFontSize = a.maxFontSize]

\* this._makeTextSizeMapper()(tag.value) for the first tag of the word set
\* (lines 379, 387).
SizeOf ==
  /\ arg.fn = "mapSizeToFontSize"
  /\ ~out.done
  /\ \E size \in {mapSizeToFontSize(_makeTextSizeMapper(WithInput(arg)), arg.weights[1])} :
       out' = [done |-> TRUE, nan |-> size = Null, n |-> ToInt32(size)]
  /\ UNCHANGED <<object, arg>>

\* The next input.
Draw ==
  /\ out.done
  /\ arg' \in RotateInputs \cup SizeInputs
  /\ out' = NoOut
  /\ UNCHANGED object

PureInit == constructor /\ arg \in RotateInputs \cup SizeInputs /\ out = NoOut

PureNext == Rotate \/ Hash \/ SizeOf \/ Draw

PureSpec == PureInit /\ [][PureNext]_vars

(***************************************************************************)
(* What the claims speak of.                                               *)
(***************************************************************************)
\* What the container shows: the scene while the svg is its child.
Rendered == IF innerHTML = "svg" THEN scene ELSE <<>>

\* A timer that will fire.
TimerArmed == \E i \in 1..Len(procs) : procs[i].pc = "pick" /\ procs[i].live

AtPc(pc) == {i \in 1..Len(procs) : procs[i].pc = pc}

RawTexts(tags) == [i \in 1..Len(tags) |-> tags[i].rawText]

Positive(job) == job.size[1] > 0 /\ job.size[2] > 0

\* C1: setData calls made in one tick, the first on an idle cloud, and no other
\* call after them: one pipeline run; the placement runs at most once, and only
\* for the job of the last call; once the cloud is idle again renderComplete was
\* emitted once, the completed job is the job of the last call with the words of
\* that call, and the placement ran once if these words are not empty and the
\* viewport is not empty.
C1_SameTickCallsCoalesce ==
  burst >= 1 =>
    /\ dRuns = 1
    /\ dEmits <= 1
    /\ Len(dPlaced) <= 1
    /\ \A k \in 1..Len(dPlaced) : dPlaced[k] = lastJob
    /\ \A i \in 1..Len(procs) : procs[i].job /= Null => Val(procs[i].job).id = lastJob
    /\ Idle =>
         /\ dEmits = 1
         /\ _completedJob /= Null
         /\ Val(_completedJob).id = lastJob
         /\ RawTexts(Val(_completedJob).words) = RawTexts(Val(_words))
         /\ (Len(Val(_words)) > 0 /\ Positive(Val(_completedJob))) => dPlaced = <<lastJob>>

C1_Witness ==
  /\ burst = 3
  /\ Idle
  /\ dRuns = 1
  /\ dEmits = 1
  /\ dPlaced = <<lastJob>>
  /\ Len(Val(_completedJob).words) = 2

\* C2: at most one coroutine of the pipeline is in flight; the placement and the
\* reconciler are never both running, and each flag is set exactly while a
\* coroutine waits for the placement, respectively for the transitions.
C2_OneRunAtATime ==
  /\ Len(procs) <= 1
  /\ ~(_layoutIsUpdating /\ _DOMisUpdating)
  /\ _layoutIsUpdating <=> AtPc("layout") /= {}
  /\ _DOMisUpdating <=> AtPc("dom") /= {}
  /\ TimerArmed => ~_layoutIsUpdating /\ ~_DOMisUpdating
  /\ ev.started => Len(procs) = 1 /\ procs[1].pc = "pick"

\* A call during reconciliation submitted a job and did not start a run.
C2_Witness ==
  /\ ev.submitted /= 0
  /\ ~ev.started
  /\ _DOMisUpdating
  /\ _pendingJob /= Null

\* The cloud has settled on the job submitted last: it is idle, that job is the
\* completed job, and renderComplete was emitted in its drain sequence.
Settled ==
  /\ Idle
  /\ ~_layoutIsUpdating /\ ~_DOMisUpdating /\ _setTimeoutId = Null
  /\ _completedJob /= Null
  /\ Val(_completedJob).id = lastJob
  /\ dEmits = 1

\* C3: no update is lost. If the cloud is not destroyed and the callbacks fire,
\* then after the host's last call the cloud settles for good on the job that was
\* submitted last; and a submission always comes before the renderComplete of its
\* drain sequence.
C3_NoUpdateLost ==
  /\ [](ev.submitted /= 0 => dEmits = 0 /\ _pendingJob /= Null
                              /\ Val(_pendingJob).id = lastJob)
  /\ <>[](innerHTML = "" \/ lastJob = 0 \/ Settled)

\* A job submitted while another one ran was completed by a second run.
C3_Witness ==
  /\ Settled
  /\ dRuns = 2
  /\ ncalls = 2
  /\ Len(Val(_completedJob).words) > 0

\* C4: renderComplete is emitted exactly by a run that ends with the pending slot
\* empty, and that run stores its job as the completed job; a run that ends with a
\* job pending emits nothing, stores nothing and starts the next run; a drain
\* sequence emits at most once, and exactly once when the cloud is idle again.
C4_EmitOncePerDrain ==
  /\ ev.emitted <=> (ev.finished /= 0 /\ _pendingJob = Null)
  /\ ev.emitted => _completedJob /= Null /\ Val(_completedJob).id = ev.finished /\ Idle
  /\ (ev.finished /= 0 /\ _pendingJob /= Null) => _completedJob = Null /\ ev.started
  /\ dEmits <= 1
  /\ (Idle /\ dRuns >= 1) => dEmits = 1
  /\ dEmits = 1 => Idle

\* A run ended with a job pending: nothing emitted, the next run started.
C4_Witness ==
  /\ ev.finished /= 0
  /\ _pendingJob /= Null
  /\ ~ev.emitted
  /\ ev.started
  /\ dRuns = 2

\* C5: latest wins. A step that binds a job's words to the scene binds the job
\* submitted last, and the scene changes in no other way; when the placement of a
\* job ends after a newer job was submitted, its reconciliation is skipped.
C5_LatestWins ==
  /\ [](ev.applied /= 0 => ev.applied = lastJob)
  /\ [](ev.skipped /= 0 => ev.applied = 0 /\ ev.skipped < lastJob)
  /\ [][scene' /= scene => ev'.applied /= 0 /\ ev'.applied = lastJob']_vars
  /\ [][(ev'.op = "layoutEnd" /\ Val(procs[1].job).id < lastJob)
          => (scene' = scene /\ ev'.skipped = Val(procs[1].job).id)]_vars

\* A placement ended after a newer job was submitted and was not reconciled.
C5_Witness ==
  /\ ev.op = "layoutEnd"
  /\ ev.skipped /= 0
  /\ ev.skipped < lastJob
  /\ ev.started

\* C6 as claimed: the completed job changes only when a run ends with the pending
\* slot empty.
C6_ChangesOnlyAtCompletion ==
  [][_completedJob' /= _completedJob => (ev'.emitted /\ _pendingJob' = Null)]_vars

\* C6, amended: the completed job changes in two ways only. A run that has
\* reconciled its job and ends with the pending slot empty stores its job, and the
\* scene then shows that job's words; a run that starts clears the completed job.
C6_CompletedJobChanges ==
  /\ [][_completedJob' /= _completedJob =>
          \/ /\ ev'.emitted
             /\ ev'.finished /= 0
             /\ _pendingJob' = Null
             /\ _completedJob' /= Null
             /\ Val(_completedJob').id = ev'.finished
             /\ scene' = Val(_completedJob').words
          \/ /\ ev'.started
             /\ _completedJob' = Null]_vars
  /\ [](ev.started => _completedJob = Null)

\* A second run has stored its job, after the first one's was cleared.
C6_Witness ==
  /\ ev.emitted
  /\ _completedJob /= Null
  /\ timerSeq = 2
  /\ dRuns = 1

\* C7: after destroy(), as long as the host makes no further call, the container
\* shows nothing, no timer is armed and no timer fires.
C7_DestroyStopsThePipeline ==
  quiet => (Rendered = <<>> /\ ~TimerArmed /\ ev.op /= "timer")

\* The cloud fits the viewport before and after a step that resizes it.
FitsBeforeAndAfter ==
  /\ _size[1] >= _cloudWidth /\ _size[2] >= _cloudHeight
  /\ _cloudWidth <= _size'[1] /\ _cloudHeight <= _size'[2]
  /\ _allInViewBox

\* The tags of a are those of b: same keys in the same order, same placement.
SamePlacement(a, b) ==
  /\ Len(a) = Len(b)
  /\ \A i \in 1..Len(a) :
       /\ a[i].rawText = b[i].rawText
       /\ a[i].x = b[i].x
       /\ a[i].y = b[i].y
       /\ a[i].rotate = b[i].rotate
       /\ a[i].size = b[i].size

\* C8 as claimed: a resize() that submits a job while the cloud fits the old and
\* the new viewport and the status is COMPLETE submits a job that keeps the layout
\* of the completed job, in whatever state the scheduler is.
C8_FittingResizeKeepsLayout ==
  [][(ev'.op = "resize" /\ ev'.submitted /= 0 /\ FitsBeforeAndAfter)
       => /\ ~Val(_pendingJob').refreshLayout
          /\ _completedJob /= Null
          /\ SamePlacement(Val(_pendingJob').words, Val(_completedJob).words)]_vars

\* C8, amended: a resize() that submits a job submits one that keeps the layout
\* exactly when the cloud fits the old and the new viewport, the status is
\* COMPLETE, no run is in flight and there is a completed job; that job has the
\* tags of the completed job, in their order, with their x, y, rotate and size.
\* The placement never runs for a job that keeps the layout.
C8_IdleFittingResizeKeepsLayout ==
  /\ [][(ev'.op = "resize" /\ ev'.submitted /= 0)
          => LET job == Val(_pendingJob')
                 busy == _setTimeoutId /= Null \/ _layoutIsUpdating \/ _DOMisUpdating
             IN  /\ ~job.refreshLayout
                      <=> (FitsBeforeAndAfter /\ ~busy /\ _completedJob /= Null)
                 /\ ~job.refreshLayout
                      => SamePlacement(job.words, Val(_completedJob).words)]_vars
  /\ [](\A i \in 1..Len(procs) :
          procs[i].pc = "layout" => Val(procs[i].job).refreshLayout)

\* resize() has submitted a job that keeps the placement of two laid out tags.
C8_Witness ==
  /\ ev.op = "resize"
  /\ _pendingJob /= Null
  /\ ~Val(_pendingJob).refreshLayout
  /\ Len(Val(_pendingJob).words) = 2
  /\ Val(_pendingJob).words[1].x /= Null

\* C9: a resize() that submits a job while the cloud is wider or higher than the
\* new viewport submits a job with refreshLayout = true. (resize() leaves the
\* cloud's width and height as they are, and _size is the new size after it.)
C9_OverflowingResizeRefreshes ==
  (/\ ev.op = "resize"
   /\ ev.submitted /= 0
   /\ (_cloudWidth > _size[1] \/ _cloudHeight > _size[2]))
    => (_pendingJob /= Null /\ Val(_pendingJob).refreshLayout)

\* The cloud was contained and the scheduler idle, and the new size is too small.
C9_Witness ==
  /\ ev.op = "resize"
  /\ ev.submitted /= 0
  /\ ev.started
  /\ _allInViewBox
  /\ _cloudWidth > _size[1]
  /\ Val(_pendingJob).refreshLayout

\* A run has the job k, and the viewport of k is empty.
EmptyViewportRun(k) ==
  \E i \in 1..Len(procs) :
    /\ procs[i].job /= Null
    /\ Val(procs[i].job).id = k
    /\ ~Positive(Val(procs[i].job))

\* C10: the placement never runs for a job with an empty viewport, and the run of
\* such a job ends: it emits renderComplete or starts the next run.
C10_EmptyViewportSkipsPlacement ==
  /\ [](\A i \in 1..Len(procs) :
          procs[i].pc = "layout" => Positive(Val(procs[i].job)))
  /\ [](ev.placed /= 0 => AtPc("layout") /= {})
  /\ \A k \in 1..MaxCalls :
       EmptyViewportRun(k) ~> (ev.finished = k /\ (ev.emitted \/ ev.started))

\* A job with tags and an empty viewport was completed without any placement.
C10_Witness ==
  /\ ev.emitted
  /\ ~Positive(Val(_completedJob))
  /\ Len(Val(_completedJob).words) > 0
  /\ dPlaced = <<>>
  /\ ~_layoutIsUpdating

\* C11: the run of a job whose viewport is empty leaves the containment status
\* as it was: in the step that ends such a run, the viewport being still empty,
\* _allInViewBox keeps its value.
C11_EmptyViewportKeepsStatus ==
  [][\A i \in 1..Len(procs) :
       (/\ procs[i].job /= Null
        /\ ~Positive(Val(procs[i].job))
        /\ Val(procs[i].job).size = _size
        /\ ev'.finished = Val(procs[i].job).id)
         => _allInViewBox' = _allInViewBox]_vars

\* C12: getStatus() is two-valued: what it returns when the cloud is contained
\* differs from what it returns when the cloud is not contained.
C12_StatusTwoValued ==
  getStatus([This EXCEPT !.allInViewBox = TRUE])
    /= getStatus([This EXCEPT !.allInViewBox = FALSE])

\* C13: in every reachable state minFontSize <= maxFontSize, and once setOptions
\* has applied a payload the stored pair is the smaller and the larger of the two
\* font sizes of that payload, whichever way round they were given.
C13_FontSizesOrdered ==
  /\ _minFontSize <= _maxFontSize
  /\ \A options \in OptionPayloads :
       _optionsAsString = Some(JSON_stringify_options(options))
         => /\ _minFontSize = Min(options.minFontSize, options.maxFontSize)
            /\ _maxFontSize = Max(options.minFontSize, options.maxFontSize)
            /\ {_minFontSize, _maxFontSize} = {options.minFontSize, options.maxFontSize}

\* setOptions has applied a payload with minFontSize 40 and maxFontSize 20.
C13_Witness ==
  /\ ev.op = "setOptions"
  /\ \E options \in OptionPayloads :
       /\ options.minFontSize > options.maxFontSize
       /\ _optionsAsString = Some(JSON_stringify_options(options))
       /\ _minFontSize = options.maxFontSize
       /\ _maxFontSize = options.minFontSize

\* Two payloads are structurally equal: they have the same members.
SameMembers(o, p) ==
  /\ o.orientation = p.orientation
  /\ o.minFontSize = p.minFontSize
  /\ o.maxFontSize = p.maxFontSize
  /\ o.scale = p.scale

\* C14: a setOptions call whose payload o is structurally equal to the payload p
\* applied before it changes no option, replaces no pending job and starts no run;
\* a call whose payload differs from p submits a job with refreshLayout = true
\* if there is a word set. (After the call _optionsAsString is the text of o,
\* whether the call applied o or returned at once.)
C14_EqualOptionsAreNoOp ==
  [][ev'.op = "setOptions" =>
       \A o, p \in OptionPayloads :
         (/\ _optionsAsString = Some(JSON_stringify_options(p))
          /\ _optionsAsString' = Some(JSON_stringify_options(o)))
           => /\ SameMembers(o, p)
                   => /\ UNCHANGED <<_orientation, _minFontSize, _maxFontSize,
                                     _textScale, _pendingJob, procs>>
                      /\ ev'.submitted = 0
                      /\ ~ev'.started
              /\ (~SameMembers(o, p) /\ _words /= Null)
                   => /\ ev'.submitted /= 0
                      /\ Val(_pendingJob').refreshLayout]_vars

\* C15: when the timer's callback picks a job with no words, that same step skips
\* the placement and the transitions (neither flag is set, no coroutine waits for
\* d3), empties the scene, sets the cloud's width and height to 0 and the status
\* to contained, and ends the run as any run ends. Nothing can have been
\* submitted since the job was picked, so the run stores the job as the completed
\* job and emits renderComplete.
C15_EmptyJobClearsScene ==
  [][(/\ ev'.op = "timer"
      /\ _pendingJob /= Null
      /\ Val(_pendingJob).words = <<>>)
       => /\ ev'.placed = 0
          /\ ~_layoutIsUpdating' /\ ~_DOMisUpdating'
          /\ procs' = <<>>
          /\ scene' = <<>>
          /\ _cloudWidth' = 0 /\ _cloudHeight' = 0
          /\ _allInViewBox'
          /\ ev'.finished = Val(_pendingJob).id
          /\ _pendingJob' = Null
          /\ ev'.emitted
          /\ _completedJob' = _pendingJob]_vars

\* The second run of the cloud was for an empty word list and has completed; the
\* cloud measured before it is gone.
C15_Witness ==
  /\ ev.op = "timer"
  /\ ev.emitted
  /\ timerSeq = 2
  /\ _words = Some(<<>>)
  /\ Val(_completedJob).words = <<>>
  /\ scene = <<>>
  /\ _cloudWidth = 0
  /\ _allInViewBox

\* C16: a reconciliation that has started (a coroutine waits at the promise of
\* _updateDOM) has a transition in flight and _DOMisUpdating set; it resolves in
\* the step that ends its last transition, exit or move, whichever comes last;
\* and as long as it has not resolved, the cloud's width, height and containment
\* are not updated, no job is stored as completed and renderComplete is not
\* emitted.
C16_ReconciliationWaitsForTransitions ==
  /\ [](\A i \in 1..Len(procs) :
          procs[i].pc = "dom"
            => /\ _DOMisUpdating
               /\ procs[i].exits >= 0 /\ procs[i].moves >= 0
               /\ procs[i].exits + procs[i].moves > 0)
  /\ [](_DOMisUpdating => AtPc("dom") /= {})
  /\ [][\A i \in 1..Len(procs) :
          (procs[i].pc = "dom" /\ ev'.finished = Val(procs[i].job).id)
            => /\ procs[i].exits + procs[i].moves = 1
               /\ ev'.op \in {"exits", "moves"}
               /\ ~_DOMisUpdating']_vars
  /\ [][(AtPc("dom") /= {} /\ AtPc("dom")' /= {})
          => /\ UNCHANGED <<_cloudWidth, _cloudHeight, _allInViewBox, _completedJob>>
             /\ ~ev'.emitted
             /\ ev'.finished = 0]_vars

\* The move transitions have ended, an exit transition is still in flight and the
\* reconciliation has not resolved.
C16_Witness ==
  /\ ev.op = "moves"
  /\ \E i \in 1..Len(procs) :
       procs[i].pc = "dom" /\ procs[i].moves = 0 /\ procs[i].exits = 1
  /\ _DOMisUpdating

\* C17: for a word set of exactly one tag the range of the size mapper is
\* [maxFontSize, maxFontSize] and the font size computed for the tag is
\* maxFontSize, whatever its weight and the scale; for two or more tags the
\* range is [minFontSize, maxFontSize].
C17_SingleWordGetsMaxFontSize ==
  arg.fn = "mapSizeToFontSize"
    => /\ _makeTextSizeMapper(WithInput(arg)).range =
            IF Len(arg.weights) = 1 THEN <<arg.maxFontSize, arg.maxFontSize>>
            ELSE <<arg.minFontSize, arg.maxFontSize>>
       /\ (out.done /\ Len(arg.weights) = 1)
            => (~out.nan /\ out.n = arg.maxFontSize)

\* C18: hashWithinRange(text, max) is an integer in 0..max-1; the rotation of a
\* word is 0 under 'single', 0 or 90 under 'right angled', and one of
\* -90, -75, ..., 75 under 'multiple'.
C18_RotationInRange ==
  out.done
    => /\ arg.fn = "hashWithinRange" => out.n \in 0..(Modulus(arg.mode) - 1)
       /\ arg.fn = "ORIENTATIONS"
            => CASE arg.mode = "single" -> out.n = 0
                 [] arg.mode = "right angled" -> out.n \in {0, 90}
                 [] arg.mode = "multiple" -> out.n \in {15 * k - 90 : k \in 0..11}

\* "a" is serialized as the three characters "a" (codes 34, 97, 34), which fold to
\* 3 modulo 12: the word a rotates by 3 * 15 - 90 under 'multiple'.
C18_Witness ==
  /\ arg.fn = "ORIENTATIONS"
  /\ arg.mode = "multiple"
  /\ arg.text = "a"
  /\ out.done
  /\ out.n = 0 - 45

\* C19 as claimed: a round whose reconciliation is skipped leaves the scene, the
\* cloud's width and height and the containment status as they were, and the
\* scheduler starts the newer job.
C19_SkippedRoundChangesNothing ==
  [][ev'.skipped /= 0
       => /\ UNCHANGED <<scene, _cloudWidth, _cloudHeight, _allInViewBox>>
          /\ ev'.started]_vars

\* C19, amended: a round whose reconciliation is skipped leaves the scene as it
\* was and starts no transition, but the cloud's width, height and containment
\* are set again, from the bounding box of that unchanged scene and the size of
\* the element (0, 0 and contained if the scene is still empty). The run ends
\* without storing its job or emitting renderComplete, and the same step starts
\* the run of the newer job, which stays in the pending slot until its timer fires.
C19_SkippedRoundOnlyMeasures ==
  [][ev'.skipped /= 0
       => /\ scene' = scene
          /\ ev'.applied = 0
          /\ ~_DOMisUpdating'
          /\ AtPc("dom")' = {}
          /\ \E cloudBBox \in GetBBox :
               /\ _cloudWidth' = cloudBBox.width
               /\ _cloudHeight' = cloudBBox.height
               /\ _allInViewBox' = (/\ cloudBBox.x >= 0
                                    /\ cloudBBox.y >= 0
                                    /\ cloudBBox.x + cloudBBox.width <= _size[1]
                                    /\ cloudBBox.y + cloudBBox.height <= _size[2])
          /\ ev'.finished = ev'.skipped
          /\ ~ev'.emitted
          /\ _completedJob' = Null
          /\ ev'.started
          /\ TimerArmed'
          /\ _pendingJob /= Null /\ _pendingJob' /= Null
          /\ Val(_pendingJob').id = Val(_pendingJob).id
          /\ Val(_pendingJob).id = lastJob]_vars

\* A reconciliation was skipped over a scene that shows an earlier job; the scene
\* was measured again and the run of the newer job has started.
C19_Witness ==
  /\ ev.op = "layoutEnd"
  /\ ev.skipped /= 0
  /\ ev.started
  /\ scene /= <<>>
  /\ _cloudWidth > 0
  /\ TimerArmed

\* A timer was cleared before it fired: its coroutine waits for ever.
TimerCleared == \E i \in 1..Len(procs) : procs[i].pc = "pick" /\ ~procs[i].live

\* C20: destroy() called while the deferred-start timer is armed clears the timer
\* and leaves its id in _setTimeoutId. From then on, in every state, the id is
\* still there and _isJobRunning() is true; no step starts a run, picks the
\* pending job, ends a run or emits renderComplete, whatever the host calls.
C20_DestroyWhileArmedBlocksForGood ==
  /\ []((ev.op = "destroy" /\ _setTimeoutId /= Null) => TimerCleared)
  /\ [](TimerCleared
          => /\ _setTimeoutId /= Null
             /\ _isJobRunning(This)
             /\ ~TimerArmed
             /\ ~ev.started
             /\ ~ev.emitted)
  /\ [][TimerCleared
          => /\ TimerCleared'
             /\ _setTimeoutId' = _setTimeoutId
             /\ procs' = procs
             /\ ev'.op \in {"setData", "setOptions", "resize", "destroy"}
             /\ ~ev'.started
             /\ ev'.finished = 0
             /\ ~ev'.emitted
             /\ _completedJob' = _completedJob]_vars

\* After destroy() on an armed timer, setData() has submitted a job: it sits in
\* the pending slot and no run was started for it.
C20_Witness ==
  /\ TimerCleared
  /\ ev.op = "setData"
  /\ ev.submitted /= 0
  /\ _pendingJob /= Null
  /\ Val(_pendingJob).id = ncalls
  /\ ~ev.started
  /\ ~TimerArmed

\* The scheduler's busy condition, as _isJobRunning reads it.
Busy == _setTimeoutId /= Null \/ _layoutIsUpdating \/ _DOMisUpdating

\* A run of the pipeline is in flight: a coroutine is suspended at an await.
InFlight == procs /= <<>>

\* C21: while there is a completed job the scheduler is idle (no timer id, no
\* armed timer, no placement, no reconciliation, no coroutine in flight) and the
\* pending slot is empty; while a job is pending or a run is in flight there is
\* no completed job and getDebugInfo() reports no positions.
C21_CompletedJobImpliesIdle ==
  /\ _completedJob /= Null =>
       /\ ~Busy
       /\ ~TimerArmed
       /\ ~InFlight
       /\ _pendingJob = Null
  /\ (_pendingJob /= Null \/ InFlight \/ Busy) =>
       /\ _completedJob = Null
       /\ getDebugInfo(This).positions = <<>>

\* A job was completed with two placed tags, then a call submitted a job and
\* started a run: no completed job is left and getDebugInfo() reports nothing.
C21_Witness ==
  /\ ev.submitted /= 0
  /\ ev.started
  /\ scene /= <<>>
  /\ Len(scene) = 2
  /\ \A i \in 1..Len(scene) : scene[i].x /= Null
  /\ ~_DOMisUpdating
  /\ _completedJob = Null
  /\ getDebugInfo(This).positions = <<>>

\* destroy() was never called: nothing but destroy() assigns innerHTML.
NeverDestroyed == innerHTML = "svg"

\* The job a timer step has handed to the pipeline is job id: the coroutine holds
\* it at its next await, or its run has ended within the step.
Handed(id) ==
  \/ procs' /= <<>> /\ procs'[1].job /= Null /\ Val(procs'[1].job).id = id
  \/ ev'.finished = id

\* C22: as long as destroy() was not called, a set timer id comes with a job in
\* the pending slot, and no two of timer id set, placement running, reconciling
\* hold together; the step in which the timer fires finds a job in the pending
\* slot, that job is the one submitted last, and it is the job the step hands to
\* the pipeline, leaving the slot empty and the timer id null.
C22_ArmedTimerHasLatestJob ==
  /\ [](NeverDestroyed =>
          /\ _setTimeoutId /= Null => _pendingJob /= Null
          /\ TimerArmed <=> _setTimeoutId /= Null
          /\ ~(_setTimeoutId /= Null /\ _layoutIsUpdating)
          /\ ~(_setTimeoutId /= Null /\ _DOMisUpdating)
          /\ ~(_layoutIsUpdating /\ _DOMisUpdating))
  /\ [][(NeverDestroyed' /\ ev'.op = "timer")
          => /\ _pendingJob /= Null
             /\ Val(_pendingJob).id = lastJob
             /\ Handed(lastJob)
             /\ _pendingJob' = Null
             /\ _setTimeoutId' = Null]_vars

\* Three jobs were submitted while the timer was armed; the timer has fired and
\* the placement of the third is running.
C22_Witness ==
  /\ NeverDestroyed
  /\ ev.op = "timer"
  /\ lastJob = 3
  /\ _layoutIsUpdating
  /\ _setTimeoutId = Null
  /\ _pendingJob = Null
  /\ Val(procs[1].job).id = 3

====
